---- MODULE Spec2Model ----
(***************************************************************************)
(* Five five-letter words using 25 distinct letters.                       *)
(*                                                                         *)
(* A model of src/src/words/words.py and of the stage sequence of          *)
(* src/src/words/__main__.py.  Letter sets are Python integers used as     *)
(* bitsets (a = 1, b = 2, c = 4, ...); the bit operators below have the    *)
(* semantics of Python's unbounded two's-complement integers, so that      *)
(* (~x + 1) & x and (x + 1) & ~x are computed the way the program does.    *)
(* A word is a sequence of one-character strings.  A dict is a function;   *)
(* a list is a sequence; iteration over a dict or a set visits the keys    *)
(* in ascending order (every consumer in the program is insensitive to     *)
(* the order).                                                             *)
(***************************************************************************)
EXTENDS Integers, Sequences, FiniteSets, TLC

VARIABLES input_words, anagrams, pc, err, word_list, word_index,
          valid_solution_pairs, pair_bitsets, visits, pair_index,
          quads, added, solutions, probe

vars == <<input_words, anagrams, pc, err, word_list, word_index,
          valid_solution_pairs, pair_bitsets, visits, pair_index,
          quads, added, solutions, probe>>

(***************************************************************************)
(* Bounds of the model.                                                    *)
(***************************************************************************)
MaxLines == 7

(***************************************************************************)
(* Python integer operators.                                               *)
(***************************************************************************)
Not(x) == (0 - x) - 1

RECURSIVE And(_, _)
And(x, y) ==
    IF x = 0 \/ y = 0 THEN 0
    ELSE IF x = -1 THEN y
    ELSE IF y = -1 THEN x
    ELSE (x % 2) * (y % 2) + 2 * And(x \div 2, y \div 2)

RECURSIVE Or(_, _)
Or(x, y) ==
    IF x = 0 THEN y
    ELSE IF y = 0 THEN x
    ELSE IF x = -1 \/ y = -1 THEN -1
    ELSE (IF x % 2 = 1 \/ y % 2 = 1 THEN 1 ELSE 0) + 2 * Or(x \div 2, y \div 2)

RECURSIVE Xor(_, _)
Xor(x, y) ==
    IF x = 0 THEN y
    ELSE IF y = 0 THEN x
    ELSE IF x = -1 THEN Not(y)
    ELSE IF y = -1 THEN Not(x)
    ELSE ((x + y) % 2) + 2 * Xor(x \div 2, y \div 2)

Range(s) == {s[i] : i \in DOMAIN s}

RECURSIVE Iter(_)
Iter(S) ==
    IF S = {} THEN <<>>
    ELSE LET m == CHOOSE k \in S : \A j \in S : k <= j
         IN  <<m>> \o Iter(S \ {m})

RECURSIVE Concat(_)
Concat(ss) == IF ss = <<>> THEN <<>> ELSE Head(ss) \o Concat(Tail(ss))

EmptyDict == [k \in {} |-> {}]

NoError == [type |-> "none", in |-> "none"]

Raise(type, in) == [type |-> type, in |-> in]

(***************************************************************************)
(* Module constants of words.py.                                           *)
(***************************************************************************)
ascii_lowercase ==
    <<"a", "b", "c", "d", "e", "f", "g", "h", "i", "j", "k", "l", "m",
      "n", "o", "p", "q", "r", "s", "t", "u", "v", "w", "x", "y", "z">>

ascii_uppercase ==
    <<"A", "B", "C", "D", "E", "F", "G", "H", "I", "J", "K", "L", "M",
      "N", "O", "P", "Q", "R", "S", "T", "U", "V", "W", "X", "Y", "Z">>

whitespace == {" ", "\n", "\t", "\r"}

LETTERS ==
    [letter \in Range(ascii_lowercase) |->
        2 ^ ((CHOOSE index \in DOMAIN ascii_lowercase :
                 ascii_lowercase[index] = letter) - 1)]

LetterBits == [index \in DOMAIN ascii_lowercase |-> 2 ^ (index - 1)]

MASKS == [value \in Range(LetterBits) |-> value - 1]

ALL_LETTERS == 2 ^ 26 - 1

LETTER_A == LETTERS["a"]
LETTER_B == LETTERS["b"]
LETTER_C == LETTERS["c"]

(***************************************************************************)
(* str.strip() and str.lower() on a line of the dictionary file.           *)
(***************************************************************************)
RECURSIVE lstrip(_)
lstrip(s) ==
    IF s # <<>> /\ Head(s) \in whitespace THEN lstrip(Tail(s)) ELSE s

RECURSIVE rstrip(_)
rstrip(s) ==
    IF s # <<>> /\ s[Len(s)] \in whitespace
    THEN rstrip(SubSeq(s, 1, Len(s) - 1))
    ELSE s

strip(s) == rstrip(lstrip(s))

lower(s) ==
    [i \in DOMAIN s |->
        IF \E k \in DOMAIN ascii_uppercase : ascii_uppercase[k] = s[i]
        THEN ascii_lowercase[CHOOSE k \in DOMAIN ascii_uppercase :
                                 ascii_uppercase[k] = s[i]]
        ELSE s[i]]

RECURSIVE sum_letters(_)
sum_letters(word) ==
    IF word = <<>> THEN 0 ELSE LETTERS[Head(word)] + sum_letters(Tail(word))

(***************************************************************************)
(* load_words: the loop over the lines of the file.  The result is the     *)
(* returned dict, or the exception that LETTERS[c] raises.                 *)
(***************************************************************************)
RECURSIVE load_loop(_, _, _)
load_loop(file, i, list) ==
    IF i > Len(file) THEN [err |-> NoError, value |-> list]
    ELSE LET word == lower(strip(file[i]))
         IN  IF Len(word) = 5 /\ Cardinality(Range(word)) = 5
             THEN IF \E c \in Range(word) : c \notin DOMAIN LETTERS
                  THEN [err |-> Raise("KeyError", "load_words"),
                        value |-> EmptyDict]
                  ELSE LET bitset == sum_letters(word)
                       IN  load_loop(file, i + 1,
                              IF bitset \in DOMAIN list
                              THEN [list EXCEPT ![bitset] = @ \cup {word}]
                              ELSE list @@ (bitset :> {word}))
             ELSE load_loop(file, i + 1, list)

load_words(file) == load_loop(file, 1, EmptyDict)

(***************************************************************************)
(* index_bitsets: bucket every word of the catalog under its earliest      *)
(* letter, (~word + 1) & word, and drop the empty buckets.                 *)
(***************************************************************************)
first_bit_of(word) == And(Not(word) + 1, word)

RECURSIVE index_bitsets_loop(_, _)
index_bitsets_loop(index, words) ==
    IF words = <<>> THEN index
    ELSE LET word == Head(words)
         IN  index_bitsets_loop(
                 [index EXCEPT ![first_bit_of(word)] = Append(@, word)],
                 Tail(words))

index_bitsets(list) ==
    LET index == index_bitsets_loop([letter \in Range(LetterBits) |-> <<>>],
                                    Iter(DOMAIN list))
    IN  [k \in {k \in DOMAIN index : index[k] # <<>>} |-> index[k]]

(***************************************************************************)
(* solution_masks: every 20-letter set that leaves room for a catalog word *)
(* and one spare letter.                                                   *)
(***************************************************************************)
solution_masks(list) ==
    {Xor(Or(word, letter), ALL_LETTERS) :
        <<word, letter>> \in
            {wl \in (DOMAIN list) \X (DOMAIN MASKS) : And(wl[1], wl[2]) = 0}}

(***************************************************************************)
(* make_pairs.  scan is the while loop of one word: it returns, in order,  *)
(* the <<word, second_word>> for which the body of the innermost if runs.  *)
(***************************************************************************)
max(S) == CHOOSE k \in S : \A j \in S : j <= k

\* A scan that stops one letter early.
scanning_before(first_missing, last_start) == first_missing < last_start

\* while first_missing <= last_start
scanning(first_missing, last_start) == first_missing <= last_start

\* A pairing that accepts words with a letter in common.
any_second_word(word, second_word) == TRUE

\* if not (word & second_word)
no_common_letter(word, second_word) == And(word, second_word) = 0

RECURSIVE scan(_, _, _, _)
scan(index, word, first_missing, last_start) ==
    IF ~scanning(first_missing, last_start) THEN <<>>
    ELSE IF first_missing \notin DOMAIN index
         THEN scan(index, word, first_missing * 2, last_start)
         ELSE LET found == SelectSeq(index[first_missing],
                               LAMBDA second_word :
                                   no_common_letter(word, second_word))
              IN  [i \in DOMAIN found |-> <<word, found[i]>>]
                  \o scan(index, word, first_missing * 2, last_start)

scan_word(index, first_letter, word, last_start) ==
    LET masked_word == Or(word, MASKS[first_letter])
        first_missing == And(masked_word + 1, Not(masked_word))
    IN  scan(index, word, first_missing, last_start)

pair_visits(index) ==
    LET last_start == max(DOMAIN index)
        starts == SelectSeq(LetterBits,
                            LAMBDA first_letter : first_letter \in DOMAIN index)
    IN  Concat([i \in DOMAIN starts |->
                   Concat([j \in DOMAIN index[starts[i]] |->
                              scan_word(index, starts[i],
                                        index[starts[i]][j], last_start)])])

RECURSIVE add_pairs(_, _)
add_pairs(pair_bitset, v) ==
    IF v = <<>> THEN pair_bitset
    ELSE LET word == Head(v)[1]
             pair == Or(word, Head(v)[2])
         IN  add_pairs(IF pair \in DOMAIN pair_bitset
                       THEN [pair_bitset EXCEPT ![pair] = @ \cup {word}]
                       ELSE pair_bitset @@ (pair :> {word}),
                       Tail(v))

make_pairs(index) ==
    IF DOMAIN index = {}
    THEN [err |-> Raise("ValueError", "make_pairs"),
          value |-> EmptyDict, visits |-> <<>>]
    ELSE LET v == pair_visits(index)
         IN  [err |-> NoError, value |-> add_pairs(EmptyDict, v),
              visits |-> v]

(***************************************************************************)
(* index_pairs: bucket every pair under its two earliest letters.  The     *)
(* buckets exist for every two distinct letters; any other key raises.     *)
(***************************************************************************)
pair_key(word) ==
    LET first_bit == And(Not(word) + 1, word)
        mask == Xor(word, first_bit)
        second_bit == And(Not(mask) + 1, mask)
    IN  Or(first_bit, second_bit)

index_keys ==
    {Or(a, b) : <<a, b>> \in
        {ab \in Range(LetterBits) \X Range(LetterBits) : ab[1] # ab[2]}}

RECURSIVE index_pairs_loop(_, _)
index_pairs_loop(index, words) ==
    IF words = <<>> THEN [err |-> NoError, value |-> index]
    ELSE LET word == Head(words)
             key == pair_key(word)
         IN  IF key \notin DOMAIN index
             THEN [err |-> Raise("KeyError", "index_pairs"),
                   value |-> EmptyDict]
             ELSE index_pairs_loop([index EXCEPT ![key] = Append(@, word)],
                                   Tail(words))

index_pairs(pair_list) ==
    index_pairs_loop([k \in index_keys |-> <<>>], Iter(pair_list))

(***************************************************************************)
(* solve.  others gives the first, second and third letter missing from    *)
(* pair | preset, found by repeatedly taking (masked + 1) & ~masked.       *)
(***************************************************************************)
\* others without the update masked |= first_other.
others_stale(pair, preset) ==
    LET masked1 == Or(pair, preset)
        first_other == And(masked1 + 1, Not(masked1))
        second_other == And(masked1 + 1, Not(masked1))
        masked3 == Or(masked1, second_other)
        third_other == And(masked3 + 1, Not(masked3))
    IN  <<first_other, second_other, third_other>>

others(pair, preset) ==
    LET masked1 == Or(pair, preset)
        first_other == And(masked1 + 1, Not(masked1))
        masked2 == Or(masked1, first_other)
        second_other == And(masked2 + 1, Not(masked2))
        masked3 == Or(masked2, second_other)
        third_other == And(masked3 + 1, Not(masked3))
    IN  <<first_other, second_other, third_other>>

Scenarios == 1 .. 5

first_key(n) ==
    CASE n = 1 -> Or(LETTER_B, LETTER_C)
      [] n = 2 -> Or(LETTER_A, LETTER_C)
      [] OTHER -> Or(LETTER_A, LETTER_B)

preset(n) == CASE n = 1 -> 1 [] n = 2 -> 2 [] OTHER -> 3

\* Scenario 3 looking where scenario 5 looks.
signature_no_third(n, pair) ==
    LET o == others(pair, preset(n))
    IN  CASE n = 4 -> Or(o[1], o[3])
          [] OTHER -> Or(o[1], o[2])

\* Scenario 5 looking where scenario 3 looks.
signature_repeated(n, pair) ==
    LET o == others(pair, preset(n))
    IN  CASE n = 3 -> Or(o[2], o[3])
          [] n = 4 -> Or(o[1], o[3])
          [] n = 5 -> Or(o[2], o[3])
          [] OTHER -> Or(o[1], o[2])

signature(n, pair) ==
    LET o == others(pair, preset(n))
    IN  CASE n = 3 -> Or(o[2], o[3])
          [] n = 4 -> Or(o[1], o[3])
          [] OTHER -> Or(o[1], o[2])

solve_keys(index) ==
    {first_key(n) : n \in Scenarios} \cup
    UNION {{signature(n, pair) : pair \in Range(index[first_key(n)])} :
              n \in {n \in Scenarios : first_key(n) \in DOMAIN index}}

scenario_quads(n, index, valid) ==
    UNION {{<<pair, second_pair>> :
               second_pair \in
                   {sp \in Range(index[signature(n, pair)]) :
                       And(pair, sp) = 0 /\ Or(pair, sp) \in valid}} :
              pair \in Range(index[first_key(n)])}

solve(index, valid) ==
    IF \E k \in solve_keys(index) : k \notin DOMAIN index
    THEN [err |-> Raise("KeyError", "solve"), value |-> {},
          added |-> [n \in Scenarios |-> {}]]
    ELSE LET by == [n \in Scenarios |-> scenario_quads(n, index, valid)]
         IN  [err |-> NoError,
              value |-> UNION {by[n] : n \in Scenarios},
              added |-> by]

(***************************************************************************)
(* has_last_word and get_last_word: try the six ways of leaving one of the *)
(* unused letters out.                                                     *)
(***************************************************************************)
\* has_last_word testing the letters still to try instead of the
\* available ones.
RECURSIVE has_last_loop_bits(_, _, _)
has_last_loop_bits(words, available, bits) ==
    LET single_bit == And(Not(bits) + 1, bits)
    IN  IF single_bit = 0 THEN FALSE
        ELSE IF And(bits, Not(single_bit)) \in DOMAIN words THEN TRUE
        ELSE has_last_loop_bits(words, available, Xor(bits, single_bit))

RECURSIVE has_last_loop(_, _, _)
has_last_loop(words, available, bits) ==
    LET single_bit == And(Not(bits) + 1, bits)
    IN  IF single_bit = 0 THEN FALSE
        ELSE IF And(available, Not(single_bit)) \in DOMAIN words THEN TRUE
        ELSE has_last_loop(words, available, Xor(bits, single_bit))

has_last_word(words, used_bits) ==
    LET available == Xor(used_bits, ALL_LETTERS)
    IN  has_last_loop(words, available, available)

RECURSIVE get_last_loop(_, _, _)
get_last_loop(words, available, bits) ==
    LET single_bit == And(Not(bits) + 1, bits)
    IN  IF single_bit = 0 THEN {}
        ELSE (IF And(available, Not(single_bit)) \in DOMAIN words
              THEN words[And(available, Not(single_bit))]
              ELSE {})
             \cup get_last_loop(words, available, Xor(bits, single_bit))

get_last_word(words, used_bits) ==
    LET available == Xor(used_bits, ALL_LETTERS)
    IN  get_last_loop(words, available, available)

(***************************************************************************)
(* reconstruct: the literal solutions of one quad.  A solution is a        *)
(* frozenset of words.                                                     *)
(***************************************************************************)
\* The partner word never derived: (pair & word) twice.
two_words_same(pairs, pair) ==
    {<<And(pair, word), And(pair, word)>> : word \in pairs[pair]}

two_words(pairs, pair) ==
    {<<And(pair, word), Xor(pair, word)>> : word \in pairs[pair]}

reconstruct(words, pairs, pair1, pair2) ==
    IF pair1 \notin DOMAIN pairs \/ pair2 \notin DOMAIN pairs
    THEN [err |-> Raise("KeyError", "reconstruct"), value |-> {}]
    ELSE LET first_two_words == two_words(pairs, pair1)
             second_two_words == two_words(pairs, pair2)
             last_words == get_last_word(words, Or(pair1, pair2))
         IN  IF last_words # {} /\
                \E ab \in first_two_words \cup second_two_words :
                    ab[1] \notin DOMAIN words \/ ab[2] \notin DOMAIN words
             THEN [err |-> Raise("KeyError", "reconstruct"), value |-> {}]
             ELSE [err |-> NoError,
                   value |->
                     UNION {UNION {UNION {
                         {{w1, w2, w3, w4, last_word} :
                             <<w1, w2, w3, w4>> \in
                                 words[ab[1]] \X words[ab[2]] \X
                                 words[cd[1]] \X words[cd[2]]} :
                         cd \in second_two_words} :
                         ab \in first_two_words} :
                         last_word \in last_words}]

(***************************************************************************)
(* The dictionary files of the model: the selections, in order, of at most *)
(* MaxLines lines of Lines.  Lines holds words that form solutions with    *)
(* every kind of unused letter, an anagram, two word pairs with the same   *)
(* letters, an upper-case line with white space, and lines that repeat a   *)
(* letter, are too short, or hold a character that is not a letter.        *)
(***************************************************************************)
Lines ==
    <<<<"b", "c", "d", "e", "f">>,
      <<"a", "c", "d", "e", "f">>,
      <<"a", "b", "d", "e", "f">>,
      <<" ", "G", "H", "I", "J", "K", "\n">>,
      <<"l", "m", "n", "o", "p">>,
      <<"c", "m", "n", "o", "p">>,
      <<"b", "m", "n", "o", "p">>,
      <<"q", "r", "s", "t", "u">>,
      <<"v", "w", "x", "y", "z">>,
      <<"z", "y", "x", "w", "v">>,
      <<"a", "a", "b", "c", "d">>,
      <<"a", "b", "c">>,
      <<"a", "b", "-", "c", "d">>>>

Files ==
    {[i \in 1 .. Cardinality(S) |-> Lines[Iter(S)[i]]] :
        S \in {S \in SUBSET DOMAIN Lines : Cardinality(S) <= MaxLines}}

\* Sets of twenty used letters, each given by the six letters it leaves.
unused(six) == Xor(sum_letters(six), ALL_LETTERS)

Probes ==
    {unused(<<"a", "b", "c", "d", "e", "f">>),
     unused(<<"b", "c", "d", "e", "f", "z">>),
     unused(<<"a", "v", "w", "x", "y", "z">>),
     unused(<<"c", "l", "m", "n", "o", "p">>),
     unused(<<"a", "b", "c", "g", "h", "i">>)}

(***************************************************************************)
(* The state machine: the stages in the order main runs them.              *)
(***************************************************************************)
Init ==
    /\ input_words \in Files
    /\ anagrams = TRUE
    /\ pc = "start"
    /\ err = NoError
    /\ word_list = EmptyDict
    /\ word_index = EmptyDict
    /\ valid_solution_pairs = {}
    /\ pair_bitsets = EmptyDict
    /\ visits = <<>>
    /\ pair_index = EmptyDict
    /\ quads = {}
    /\ added = [n \in Scenarios |-> {}]
    /\ solutions = {}
    /\ probe = <<>>

\* main as written: load_words is called with the keyword anagrams, which
\* its signature does not have.
Main ==
    /\ pc = "start"
    /\ \E option \in BOOLEAN : anagrams' = option
    /\ err' = Raise("TypeError", "main")
    /\ pc' = "raised"
    /\ UNCHANGED <<input_words, word_list, word_index, valid_solution_pairs,
                   pair_bitsets, visits, pair_index, quads, added, solutions,
                   probe>>

LoadWords ==
    /\ pc = "start"
    /\ LET r == load_words(input_words)
       IN  /\ err' = r.err
           /\ word_list' = r.value
           /\ pc' = IF r.err = NoError THEN "index_bitsets" ELSE "raised"
    /\ UNCHANGED <<input_words, anagrams, word_index, valid_solution_pairs,
                   pair_bitsets, visits, pair_index, quads, added, solutions,
                   probe>>

IndexBitsets ==
    /\ pc = "index_bitsets"
    /\ word_index' = index_bitsets(word_list)
    /\ pc' = "solution_masks"
    /\ UNCHANGED <<input_words, anagrams, err, word_list,
                   valid_solution_pairs, pair_bitsets, visits, pair_index,
                   quads, added, solutions, probe>>

SolutionMasks ==
    /\ pc = "solution_masks"
    /\ valid_solution_pairs' = solution_masks(word_list)
    /\ pc' = "make_pairs"
    /\ UNCHANGED <<input_words, anagrams, err, word_list, word_index,
                   pair_bitsets, visits, pair_index, quads, added, solutions,
                   probe>>

MakePairs ==
    /\ pc = "make_pairs"
    /\ LET r == make_pairs(word_index)
       IN  /\ err' = r.err
           /\ pair_bitsets' = r.value
           /\ visits' = r.visits
           /\ pc' = IF r.err = NoError THEN "index_pairs" ELSE "raised"
    /\ UNCHANGED <<input_words, anagrams, word_list, word_index,
                   valid_solution_pairs, pair_index, quads, added, solutions,
                   probe>>

IndexPairs ==
    /\ pc = "index_pairs"
    /\ LET r == index_pairs(DOMAIN pair_bitsets)
       IN  /\ err' = r.err
           /\ pair_index' = r.value
           /\ pc' = IF r.err = NoError THEN "solve" ELSE "raised"
    /\ UNCHANGED <<input_words, anagrams, word_list, word_index,
                   valid_solution_pairs, pair_bitsets, visits, quads, added,
                   solutions, probe>>

Solve ==
    /\ pc = "solve"
    /\ LET r == solve(pair_index, valid_solution_pairs)
       IN  /\ err' = r.err
           /\ quads' = r.value
           /\ added' = r.added
           /\ pc' = IF r.err = NoError THEN "reconstruct" ELSE "raised"
    /\ UNCHANGED <<input_words, anagrams, word_list, word_index,
                   valid_solution_pairs, pair_bitsets, visits, pair_index,
                   solutions, probe>>

\* The loop of main over the quads: solutions |= reconstruct(...).
Reconstruct ==
    /\ pc = "reconstruct"
    /\ LET r == [q \in quads |->
                    reconstruct(word_list, pair_bitsets, q[1], q[2])]
       IN  IF \E q \in quads : r[q].err # NoError
           THEN /\ err' = Raise("KeyError", "reconstruct")
                /\ pc' = "raised"
                /\ UNCHANGED solutions
           ELSE /\ solutions' = UNION {r[q].value : q \in quads}
                /\ pc' = "done"
                /\ UNCHANGED err
    /\ UNCHANGED <<input_words, anagrams, word_list, word_index,
                   valid_solution_pairs, pair_bitsets, visits, pair_index,
                   quads, added, probe>>

\* tests/test_words.py: has_last_word applied to a catalog and a set of
\* twenty used letters.
HasLastWord ==
    /\ pc = "make_pairs"
    /\ \E used \in Probes :
           probe' = <<used, has_last_word(word_list, used)>>
    /\ pc' = "probed"
    /\ UNCHANGED <<input_words, anagrams, err, word_list, word_index,
                   valid_solution_pairs, pair_bitsets, visits, pair_index,
                   quads, added, solutions>>

Next ==
    \/ Main
    \/ LoadWords
    \/ IndexBitsets
    \/ SolutionMasks
    \/ MakePairs
    \/ IndexPairs
    \/ Solve
    \/ Reconstruct
    \/ HasLastWord

Spec == Init /\ [][Next]_vars

(***************************************************************************)
(* Vocabulary of the properties.  These are stated on letters and words,   *)
(* without the bit tricks of the program.                                  *)
(***************************************************************************)
Catalog == DOMAIN word_list

CatalogWords == UNION {word_list[m] : m \in Catalog}

\* The stages of words.py ran on a catalog that load_words returned.
Loaded == pc # "start" /\ err.in \notin {"main", "load_words"}

PairsMade == pc \in {"index_pairs", "solve", "reconstruct", "done"}

Solved == pc \in {"reconstruct", "done"}

HasLetter(m, i) == (m \div (2 ^ (i - 1))) % 2 = 1

LettersOf(m) == {i \in 1 .. 26 : HasLetter(m, i)}

Earliest(m) == CHOOSE i \in LettersOf(m) : \A j \in LettersOf(m) : i <= j

LettersOfWord(w) ==
    {i \in DOMAIN ascii_lowercase : \E k \in DOMAIN w : w[k] = ascii_lowercase[i]}

LettersOfGroup(g) == UNION {LettersOfWord(w) : w \in g}

\* Five literal words, no letter in two of them.
IsFiveGroup(g) ==
    /\ Cardinality(g) = 5
    /\ \A w1, w2 \in g : w1 # w2 => LettersOfWord(w1) \cap LettersOfWord(w2) = {}

FiveGroups == {g \in SUBSET CatalogWords : IsFiveGroup(g)}

\* The letter sets of the words of a group: two groups with the same ones
\* are letter-identical.
ClassOf(g) == {LettersOfWord(w) : w \in g}

Count(seq, x) == Cardinality({i \in DOMAIN seq : seq[i] = x})

\* What a line becomes, and whether load_words is to keep it.
Token(line) == lower(strip(line))

Accepted(line) ==
    Len(Token(line)) = 5 /\ Cardinality(Range(Token(line))) = 5

\* The letter a scenario takes to be unused, as a set of letter numbers.
ScenarioLetter(n, pair1) ==
    CASE n = 1 -> {1}
      [] n = 2 -> {2}
      [] n = 3 -> {CHOOSE i \in (1 .. 26) \ LettersOf(pair1) :
                      \A j \in (1 .. 26) \ LettersOf(pair1) : i <= j}
      [] n = 4 -> LET x == CHOOSE i \in (1 .. 26) \ LettersOf(pair1) :
                              \A j \in (1 .. 26) \ LettersOf(pair1) : i <= j
                      rest == ((1 .. 26) \ LettersOf(pair1)) \ {x}
                  IN  {CHOOSE i \in rest : \A j \in rest : i <= j}
      [] OTHER -> {}

SolutionsOf(q) == reconstruct(word_list, pair_bitsets, q[1], q[2]).value

(***************************************************************************)
(* C1.  Completeness: when the pipeline has run, every group of five       *)
(* literal catalog words with pairwise no common letter is in the final    *)
(* solution set; a catalog that holds such a group never makes a stage     *)
(* raise.                                                                  *)
(***************************************************************************)
C1_Completeness ==
    /\ pc = "done" => \A g \in FiveGroups : g \in solutions
    /\ (pc = "raised" /\ Loaded) => FiveGroups = {}

\* Two solutions that differ by an anagram, and one with a and b in
\* different words, are found.
C1_Witness ==
    /\ pc = "done"
    /\ \E g1, g2 \in FiveGroups : g1 # g2 /\ ClassOf(g1) = ClassOf(g2)
    /\ \E g \in FiveGroups :
           \E w1, w2 \in g : w1 # w2 /\ 1 \in LettersOfWord(w1)
                                      /\ 2 \in LettersOfWord(w2)

(***************************************************************************)
(* C2.  Soundness: every final solution is a set of exactly five catalog   *)
(* words, pairwise without a common letter, using exactly 25 letters.      *)
(***************************************************************************)
C2_Soundness ==
    pc = "done" =>
        \A sol \in solutions :
            /\ IsFiveGroup(sol)
            /\ sol \subseteq CatalogWords
            /\ Cardinality(LettersOfGroup(sol)) = 25

C2_Witness == pc = "done" /\ Cardinality(solutions) >= 2

(***************************************************************************)
(* C3.  A catalog with fewer than two words, or whose words pairwise share *)
(* a letter, makes no stage raise and gives no pair, quad or solution.     *)
(***************************************************************************)
NoDisjointWords ==
    \/ Cardinality(Catalog) < 2
    \/ \A w1, w2 \in Catalog : w1 # w2 => And(w1, w2) # 0

C3_EmptyIsNotAnError ==
    (Loaded /\ NoDisjointWords) =>
        /\ pc # "raised"
        /\ err = NoError
        /\ pair_bitsets = EmptyDict
        /\ quads = {}
        /\ solutions = {}

(***************************************************************************)
(* C4.  load_words never fails: whatever the lines, it returns the catalog *)
(* of exactly the accepted lines, each under a key of five letters.        *)
(***************************************************************************)
C4_LoadNeverFails ==
    (pc # "start" /\ err.in # "main") =>
        /\ err.in # "load_words"
        /\ CatalogWords = {Token(input_words[i]) :
                              i \in {i \in DOMAIN input_words :
                                        Accepted(input_words[i])}}
        /\ \A m \in Catalog :
               /\ Cardinality(LettersOf(m)) = 5
               /\ \A w \in word_list[m] : LettersOfWord(w) = LettersOf(m)

(***************************************************************************)
(* C5.  A run of main completes; with anagrams disabled its solutions hold *)
(* one group per class of letter-identical solutions, with anagrams        *)
(* enabled they hold every group of each class.                            *)
(***************************************************************************)
C5_AnagramToggling ==
    /\ err.in # "main"
    /\ pc = "done" =>
           IF anagrams
           THEN \A g \in FiveGroups : g \in solutions
           ELSE \A s1, s2 \in solutions : ClassOf(s1) = ClassOf(s2) => s1 = s2

(***************************************************************************)
(* C6.  Every key of the dict of make_pairs has exactly ten letters; every *)
(* word stored under it is a catalog word within the key, and the rest of  *)
(* the key is a catalog word of five letters sharing no letter with it.    *)
(***************************************************************************)
C6_PairBitsets ==
    \A mask \in DOMAIN pair_bitsets :
        /\ Cardinality(LettersOf(mask)) = 10
        /\ \A r \in pair_bitsets[mask] :
               /\ r \in Catalog
               /\ LettersOf(r) \subseteq LettersOf(mask)
               /\ Xor(mask, r) \in Catalog
               /\ Cardinality(LettersOf(Xor(mask, r))) = 5
               /\ LettersOf(Xor(mask, r)) \cap LettersOf(r) = {}

\* A key that stands for two different word pairs.
C6_Witness ==
    /\ PairsMade
    /\ \E mask \in DOMAIN pair_bitsets : Cardinality(pair_bitsets[mask]) = 2

(***************************************************************************)
(* C7.  For a set of twenty used letters, has_last_word is true exactly    *)
(* when some catalog word uses none of them, and exactly when the set is   *)
(* in solution_masks; so every accepted quad has a last word and at least  *)
(* one solution.                                                           *)
(***************************************************************************)
C7_LastWord ==
    /\ pc = "probed" =>
           /\ Cardinality(LettersOf(probe[1])) = 20
           /\ probe[2] = (\E w \in Catalog :
                             LettersOf(w) \cap LettersOf(probe[1]) = {})
           /\ probe[2] = (probe[1] \in valid_solution_pairs)
    /\ pc = "done" =>
           \A q \in quads :
               /\ get_last_word(word_list, Or(q[1], q[2])) # {}
               /\ SolutionsOf(q) # {}

\* The word found is not the one that leaves the earliest letter out.
C7_Witness ==
    /\ pc = "probed"
    /\ probe[2]
    /\ \A w \in Catalog :
           LettersOf(w) \cap LettersOf(probe[1]) = {} =>
               Earliest(w) = Earliest(Xor(probe[1], ALL_LETTERS))

\* A set of used letters that leaves no word, although the catalog has some.
C7_WitnessNone == pc = "probed" /\ ~probe[2] /\ Catalog # {}

(***************************************************************************)
(* C8.  For every two catalog words without a common letter, the body of   *)
(* the inner loop of make_pairs runs exactly once, with the word that      *)
(* holds the earliest letter as word; their union is a key and, of the     *)
(* two, only that word is stored under it.                                 *)
(***************************************************************************)
C8_EachPairOnce ==
    PairsMade =>
        \A w1, w2 \in Catalog :
            (LettersOf(w1) \cap LettersOf(w2) = {} /\ Earliest(w1) < Earliest(w2)) =>
                /\ Count(visits, <<w1, w2>>) = 1
                /\ Count(visits, <<w2, w1>>) = 0
                /\ Or(w1, w2) \in DOMAIN pair_bitsets
                /\ w1 \in pair_bitsets[Or(w1, w2)]
                /\ w2 \notin pair_bitsets[Or(w1, w2)]

\* Two word pairs with the same letters, and a pair whose second word
\* starts with the last starting letter of the catalog.
C8_Witness ==
    /\ PairsMade
    /\ \E mask \in DOMAIN pair_bitsets : Cardinality(pair_bitsets[mask]) = 2
    /\ \E i \in DOMAIN visits :
           \A w \in Catalog : Earliest(w) <= Earliest(visits[i][2])

(***************************************************************************)
(* C9.  No lookup of index_pairs or solve misses: every pair goes to, and  *)
(* every signature of solve is, the union of two different letters, which  *)
(* is a key of the index.                                                  *)
(***************************************************************************)
TwoLetters ==
    {2 ^ (i - 1) + 2 ^ (j - 1) : <<i, j>> \in
        {ij \in (1 .. 26) \X (1 .. 26) : ij[1] < ij[2]}}

C9_LookupsNeverFail ==
    /\ ~(err.type = "KeyError" /\ err.in \in {"index_pairs", "solve"})
    /\ pc \in {"solve", "reconstruct", "done"} =>
           /\ DOMAIN pair_index = TwoLetters
           /\ \A pair \in DOMAIN pair_bitsets : pair_key(pair) \in TwoLetters
           /\ \A k \in solve_keys(pair_index) : k \in TwoLetters

\* A first pair that, with the letter a, fills the letters up to k, and
\* a quad of a scenario that reads the third missing letter.
C9_Witness ==
    /\ pc = "done"
    /\ \E q \in added[1] : LettersOf(q[1]) = 2 .. 11
    /\ added[3] # {}

(***************************************************************************)
(* C10.  Every quad of solve is added by exactly one scenario, and no      *)
(* solution reconstructed from it uses the letter that scenario takes to   *)
(* be unused.                                                              *)
(***************************************************************************)
C10_ScenarioMatchesUnusedLetter ==
    pc = "done" =>
        \A q \in quads :
            /\ Cardinality({n \in Scenarios : q \in added[n]}) = 1
            /\ \A n \in Scenarios :
                   q \in added[n] =>
                       \A sol \in SolutionsOf(q) :
                           ScenarioLetter(n, q[1]) \cap LettersOfGroup(sol) = {}

(***************************************************************************)
(* C10, amended.  Every quad of solve is added by exactly one scenario,    *)
(* and the four words of the quad do not use the letter that scenario      *)
(* takes to be unused (the fifth word may).                                *)
(***************************************************************************)
C10_ScenarioLetterNotInQuad ==
    Solved =>
        \A q \in quads :
            /\ Cardinality({n \in Scenarios : q \in added[n]}) = 1
            /\ \A n \in Scenarios :
                   q \in added[n] =>
                       ScenarioLetter(n, q[1]) \cap LettersOf(Or(q[1], q[2])) = {}

\* A quad of scenario 3 with a solution whose fifth word uses the letter.
C10_Witness ==
    /\ pc = "done"
    /\ \E q \in added[3] :
           \E sol \in SolutionsOf(q) :
               ScenarioLetter(3, q[1]) \subseteq LettersOfGroup(sol)

====
